---- MODULE Spec2Model ----
(***************************************************************************)
(* publish.js: generate three markdown articles with a generative-language *)
(* API and publish each to dev.to, strictly in sequence.                   *)
(*                                                                         *)
(* JavaScript strings are modelled as sequences of one-character strings.  *)
(* A character outside ASCII is written by its code point ("U+2022" is the *)
(* bullet).  A value that may be undefined is None or Some(v).             *)
(***************************************************************************)
EXTENDS Integers, Sequences, FiniteSets, TLC

VARIABLES
    env,          \* process.env: DEVTO_API_KEY, GEMINI_API_KEY
    now,          \* the clock read by new Date(): UTC year, month (0-based), day
    stamp,        \* const stamp; the empty string until the script computes it
    pc,           \* where the script is suspended
    i,            \* loop index of main()
    res,          \* the Response the suspended function holds, if any
    data,         \* generateArticle's parsed response (const data), if any
    article,      \* { title, markdown, tags } of the current iteration, if any
    outstanding,  \* fetch() calls not answered yet
    published,    \* server side: briefs whose article dev.to has created
    log,          \* history of requests, responses, returns and pauses
    stdout,       \* console.log lines
    stderr,       \* console.error lines
    exitCode,     \* the process's exit status, None while it runs
    arg,          \* input of the ensure-suffix step applied on its own
    result,       \* its output
    applied       \* how many times the step has been applied to arg

vars == << env, now, stamp, pc, i, res, data, article, outstanding, published,
           log, stdout, stderr, exitCode, arg, result, applied >>

None == << >>

Some(v) == << v >>

----------------------------------------------------------------------------
(* Bounds of the model *)

\* longest raw generation text, part separators included
MaxTextLen == 4

\* longest text put before and after the stamp in a title given to the
\* stamp-append step on its own
MaxAffix == 2

----------------------------------------------------------------------------
(* String primitives *)

\* WhiteSpace and LineTerminator of ECMAScript, as far as the alphabet goes:
\* what \s matches and what String.prototype.trim strips.
WhiteSpace == { " ", "\t", "\n", "\r" }

\* what "." does not match
LineTerminator == { "\n", "\r" }

IsWhite(c) == c \in WhiteSpace

\* every character of s after position p (0-based offset) is white space
AllWhiteFrom(s, p) == \A k \in (p + 1)..Len(s) : IsWhite(s[k])

\* String.prototype.includes
Includes(s, sub) ==
    \E p \in 0..(Len(s) - Len(sub)) : SubSeq(s, p + 1, p + Len(sub)) = sub

\* String.prototype.endsWith
EndsWith(s, suf) ==
    /\ Len(suf) <= Len(s)
    /\ SubSeq(s, Len(s) - Len(suf) + 1, Len(s)) = suf

\* String.prototype.trim
RECURSIVE TrimStart(_)
TrimStart(s) ==
    IF s # << >> /\ IsWhite(Head(s)) THEN TrimStart(Tail(s)) ELSE s

RECURSIVE TrimEnd(_)
TrimEnd(s) ==
    IF s # << >> /\ IsWhite(s[Len(s)])
    THEN TrimEnd(SubSeq(s, 1, Len(s) - 1))
    ELSE s

Trim(s) == TrimEnd(TrimStart(s))

\* Array.prototype.join: an undefined element is joined as the empty string
RECURSIVE Join(_, _)
Join(texts, sep) ==
    IF texts = << >> THEN << >>
    ELSE LET h == IF Head(texts) = None THEN << >> ELSE Head(texts)[1]
         IN  IF Len(texts) = 1 THEN h
             ELSE h \o sep \o Join(Tail(texts), sep)

\* text.split("\n")[0] || ""
RECURSIVE FirstLine(_)
FirstLine(s) ==
    IF s = << >> \/ Head(s) = "\n" THEN << >>
    ELSE << Head(s) >> \o FirstLine(Tail(s))

\* String(n) for a non-negative integer
DigitChar(d) ==
    CASE d = 0 -> "0" [] d = 1 -> "1" [] d = 2 -> "2" [] d = 3 -> "3"
      [] d = 4 -> "4" [] d = 5 -> "5" [] d = 6 -> "6" [] d = 7 -> "7"
      [] d = 8 -> "8" [] d = 9 -> "9"

RECURSIVE NumToString(_)
NumToString(n) ==
    IF n < 10 THEN << DigitChar(n) >>
    ELSE NumToString(n \div 10) \o << DigitChar(n % 10) >>

\* s.padStart(2, "0")
PadStart2(s) ==
    IF Len(s) >= 2 THEN s
    ELSE IF Len(s) = 1 THEN << "0" >> \o s
    ELSE << "0", "0" >>

----------------------------------------------------------------------------
(* The literals of the script *)

\* "Weekly-style AI & Tech roundup (evergreen explainer edition)"
Role1 ==
    << "W", "e", "e", "k", "l", "y", "-", "s", "t", "y", "l", "e", " ", "A", "I",
       " ", "&", " ", "T", "e", "c", "h", " ", "r", "o", "u", "n", "d", "u", "p",
       " ", "(", "e", "v", "e", "r", "g", "r", "e", "e", "n", " ", "e", "x", "p",
       "l", "a", "i", "n", "e", "r", " ", "e", "d", "i", "t", "i", "o", "n", ")" >>

\* "Career playbook using AI"
Role2 ==
    << "C", "a", "r", "e", "e", "r", " ", "p", "l", "a", "y", "b", "o", "o", "k",
       " ", "u", "s", "i", "n", "g", " ", "A", "I" >>

\* "Tooling deep-dive"
Role3 ==
    << "T", "o", "o", "l", "i", "n", "g", " ", "d", "e", "e", "p", "-", "d", "i",
       "v", "e" >>

\* "AI & Tech U+2022 "
FallbackPrefix ==
    << "A", "I", " ", "&", " ", "T", "e", "c", "h", " ", "U+2022", " " >>

\* " U+2022 "
FallbackSep ==
    << " ", "U+2022", " " >>

\* "\n\n---\n*Auto-published via GitHub Actions U+2022 Topic: AI + Tech News & AI Career Advice U+2022 "
FooterHead ==
    << "\n", "\n", "-", "-", "-", "\n", "*", "A", "u", "t", "o", "-", "p", "u",
       "b", "l", "i", "s", "h", "e", "d", " ", "v", "i", "a", " ", "G", "i", "t",
       "H", "u", "b", " ", "A", "c", "t", "i", "o", "n", "s", " ", "U+2022", " ",
       "T", "o", "p", "i", "c", ":", " ", "A", "I", " ", "+", " ", "T", "e", "c",
       "h", " ", "N", "e", "w", "s", " ", "&", " ", "A", "I", " ", "C", "a", "r",
       "e", "e", "r", " ", "A", "d", "v", "i", "c", "e", " ", "U+2022", " " >>

\* "Gemini error "
GeminiErrorPrefix ==
    << "G", "e", "m", "i", "n", "i", " ", "e", "r", "r", "o", "r", " " >>

\* "dev.to publish error "
DevtoErrorPrefix ==
    << "d", "e", "v", ".", "t", "o", " ", "p", "u", "b", "l", "i", "s", "h", " ",
       "e", "r", "r", "o", "r", " " >>

\* "quota exceeded"
QuotaExceeded ==
    << "q", "u", "o", "t", "a", " ", "e", "x", "c", "e", "e", "d", "e", "d" >>

\* "invalid"
Invalid ==
    << "i", "n", "v", "a", "l", "i", "d" >>

\* "Missing DEVTO_API_KEY"
MissingDevto ==
    << "M", "i", "s", "s", "i", "n", "g", " ", "D", "E", "V", "T", "O", "_", "A",
       "P", "I", "_", "K", "E", "Y" >>


\* "Missing GEMINI_API_KEY"
MissingGemini ==
    << "M", "i", "s", "s", "i", "n", "g", " ", "G", "E", "M", "I", "N", "I", "_",
       "A", "P", "I", "_", "K", "E", "Y" >>

----------------------------------------------------------------------------
(* Startup constants and the briefs *)

\* `${yyyy}-${mm}-${dd}` of the UTC date d; getUTCMonth() counts from 0
StampOf(d) ==
    NumToString(d.year) \o << "-" >> \o PadStart2(NumToString(d.month + 1))
        \o << "-" >> \o PadStart2(NumToString(d.date))

\* the footer main() appends, for stamp st
Footer(st) == FooterHead \o st \o << "*" >>

\* the three briefs of main(); focus is only copied into the prompt and is
\* kept as an opaque label
briefs ==
    << [role |-> Role1, focus |-> "key AI trends of the past quarter"],
       [role |-> Role2, focus |-> "using AI to upskill"],
       [role |-> Role3, focus |-> "compare free AI tools for developers"] >>

\* the default of generateArticle's length parameter
DefaultLength == "1200-1500 words"

\* const tags of generateArticle
tags == << "ai", "machinelearning", "career", "productivity", "programming" >>

----------------------------------------------------------------------------
(* generateArticle: from the parsed response to the article *)

\* "undefined"
UndefinedText ==
    << "u", "n", "d", "e", "f", "i", "n", "e", "d" >>

\* ExtractText with parts.map((p) => `${p.text}`): a part without text is
\* joined as the text "undefined"
ExtractText_Stringify(d) ==
    IF d.candidates = None THEN << >>
    ELSE IF d.candidates[1] = << >> THEN << >>
    ELSE LET c == d.candidates[1][1]
         IN  IF c.content = None THEN << >>
             ELSE IF c.content[1].parts = None THEN << >>
             ELSE LET ps == c.content[1].parts[1]
                  IN  Trim(Join([k \in 1..Len(ps) |->
                                    IF ps[k].text = None THEN Some(UndefinedText)
                                    ELSE ps[k].text], << "\n" >>))

\* data?.candidates?.[0]?.content?.parts?.map((p) => p.text).join("\n")?.trim() || ""
ExtractText(d) ==
    IF d.candidates = None THEN << >>
    ELSE IF d.candidates[1] = << >> THEN << >>
    ELSE LET c == d.candidates[1][1]
         IN  IF c.content = None THEN << >>
             ELSE IF c.content[1].parts = None THEN << >>
             ELSE LET ps == c.content[1].parts[1]
                  IN  Trim(Join([k \in 1..Len(ps) |-> ps[k].text], << "\n" >>))

\* The regular expression /^\s*#\s+(.+?)\s*$/ run on s as a backtracking
\* matcher runs it.  Positions are offsets: p characters have been consumed.

\* \s* and \s+ are greedy: the end of the white-space run starting at p
RECURSIVE WhiteRunEnd(_, _)
WhiteRunEnd(s, p) ==
    IF p < Len(s) /\ IsWhite(s[p + 1]) THEN WhiteRunEnd(s, p + 1) ELSE p

\* LazyGroup with a greedy group, (.+)\s*$: the longest run without a line
\* terminator that leaves only white space
GreedyGroup(s, q, e) ==
    LET ends == { x \in e..Len(s) :
                    /\ \A k \in (q + 1)..x : s[k] \notin LineTerminator
                    /\ AllWhiteFrom(s, x) }
    IN  IF ends = {} THEN None
        ELSE Some(SubSeq(s, q + 1, CHOOSE x \in ends : \A y \in ends : y <= x))

\* (.+?)\s*$ from offset q: the group is lazy, it takes one more character
\* (never a line terminator) as long as the rest is not white space up to the
\* end of the input.  The group is s[q+1..e].
RECURSIVE LazyGroup(_, _, _)
LazyGroup(s, q, e) ==
    IF e > Len(s) \/ s[e] \in LineTerminator THEN None
    ELSE IF AllWhiteFrom(s, e) THEN Some(SubSeq(s, q + 1, e))
    ELSE LazyGroup(s, q, e + 1)

\* \s+ after the "#" at offset p, having taken s[p+1..q]: when the rest does
\* not match it gives back one character and tries again
RECURSIVE WhiteThenGroup(_, _, _)
WhiteThenGroup(s, p, q) ==
    IF q <= p THEN None
    ELSE LET m == LazyGroup(s, q, q + 1)
         IN  IF m # None THEN m ELSE WhiteThenGroup(s, p, q - 1)

\* the result of exec: None for null, Some(m[1]) for a match
HeadingExec(s) ==
    LET a == WhiteRunEnd(s, 0)
    IN  IF a < Len(s) /\ s[a + 1] = "#"
        THEN WhiteThenGroup(s, a + 1, WhiteRunEnd(s, a + 1))
        ELSE None

\* FallbackTitle without the stamp: `AI & Tech • ${role}`
FallbackTitle_NoStamp(role, st) == FallbackPrefix \o role

\* let title = `AI & Tech • ${role} • ${stamp}`
FallbackTitle(role, st) == FallbackPrefix \o role \o FallbackSep \o st

\* ` (${stamp})`
StampSuffix(st) == << " ", "(" >> \o st \o << ")" >>

\* the title generateArticle returns for the trimmed text
TitleOf(text, role, st) ==
    LET m == HeadingExec(FirstLine(text))
    IN  IF m # None THEN m[1] \o StampSuffix(st) ELSE FallbackTitle(role, st)

\* return { title, markdown: text, tags }
ArticleOf(d, role, st) ==
    LET text == ExtractText(d)
    IN  [title |-> TitleOf(text, role, st), markdown |-> text, tags |-> tags]

\* `Gemini error ${res.status}: ${t}`
GeminiErrorMessage(status, t) ==
    GeminiErrorPrefix \o NumToString(status) \o << ":", " " >> \o t

\* `dev.to publish error ${res.status}: ${t}`
DevtoErrorMessage(status, t) ==
    DevtoErrorPrefix \o NumToString(status) \o << ":", " " >> \o t

----------------------------------------------------------------------------
(* main: the two ensure-suffix steps *)

\* EnsureStamp testing title.endsWith(` (${stamp})`) instead of includes
EnsureStamp_SuffixOnly(title, st) ==
    IF EndsWith(title, << " ", "(" >> \o st \o << ")" >>) THEN title
    ELSE title \o << " ", "(" >> \o st \o << ")" >>

\* const finalTitle = title.includes(stamp) ? title : `${title} (${stamp})`
EnsureStamp(title, st) ==
    IF Includes(title, st) THEN title ELSE title \o StampSuffix(st)

\* EnsureFooter without the endsWith test: markdown + footer
EnsureFooter_Always(markdown, st) == markdown \o FooterHead \o st \o << "*" >>

\* const body = markdown.endsWith(footer) ? markdown : markdown + footer
EnsureFooter(markdown, st) ==
    IF EndsWith(markdown, Footer(st)) THEN markdown ELSE markdown \o Footer(st)

----------------------------------------------------------------------------
(* The environment: credentials, clock, and what the two APIs may answer *)

\* a credential is unset, set to the empty string, or set
KeyValues == { None, Some(<< >>), Some(<< "k" >>) }

\* the dates the run may start on (month as getUTCMonth() gives it)
Dates ==
    { [year |-> 2024, month |-> 4, date |-> 1],
      [year |-> 2025, month |-> 11, date |-> 30] }

\* HTTP statuses the generation API may answer with
GenStatuses == { 200, 429, 500 }

\* HTTP statuses dev.to may answer with
PubStatuses == { 201, 422 }

\* Response.ok
Ok(status) == status \in 200..299

\* bodies of an error response, as res.text() gives them
ErrorBodies == { << >>, QuotaExceeded, Invalid }

\* characters of a generated text
Alphabet == { "#", " ", "\n", "\r", "a" }

\* in a raw text, the boundary between two parts of the response
PartBreak == "|"

RawTexts == UNION { [1..n -> Alphabet \cup { PartBreak }] : n \in 0..MaxTextLen }

\* the texts of the parts of a raw text
RECURSIVE SplitParts(_)
SplitParts(raw) ==
    IF raw = << >> THEN << << >> >>
    ELSE LET rest == SplitParts(Tail(raw))
         IN  IF Head(raw) = PartBreak THEN << << >> >> \o rest
             ELSE << << Head(raw) >> \o Head(rest) >> \o Tail(rest)

\* content.parts of a response: the parts of raw; with tail the last part
\* goes on with the footer of stamp st; with bare a part of empty text has no
\* text field at all
PartsOf(raw, tail, bare, st) ==
    LET ts == SplitParts(raw)
        n  == Len(ts)
    IN  [k \in 1..n |->
            LET t == IF tail /\ k = n THEN ts[k] \o Footer(st) ELSE ts[k]
            IN  [text |-> IF bare /\ t = << >> THEN None ELSE Some(t)]]

DataWithParts(ps) ==
    [candidates |-> Some(<< [content |-> Some([parts |-> Some(ps)])] >>)]

\* success bodies without the expected fields: no candidates (absent or
\* empty), no content, no parts
LackingData ==
    { [candidates |-> None],
      [candidates |-> Some(<< >>)],
      [candidates |-> Some(<< [content |-> None] >>)],
      [candidates |-> Some(<< [content |-> Some([parts |-> None])] >>)] }

\* the JSON bodies of a successful generation response
GenData(st) ==
    LackingData \cup { DataWithParts(<< >>) }
        \cup { DataWithParts(PartsOf(raw, tail, bare, st)) :
                 raw \in RawTexts, tail \in BOOLEAN, bare \in BOOLEAN }

----------------------------------------------------------------------------
(* Requests, log entries, console lines *)

\* fetch(GEMINI_URL, { method: "POST", ... }) for brief number n
GenRequest(n) ==
    [api |-> "gemini", method |-> "POST", brief |-> n,
     key |-> env.GEMINI_API_KEY[1],
     body |-> [role |-> briefs[n].role, focus |-> briefs[n].focus,
               length |-> DefaultLength]]

\* fetch("https://dev.to/api/articles", { method: "POST", ... })
PubRequest(n, title, markdown, tg) ==
    [api |-> "devto", method |-> "POST", brief |-> n,
     key |-> env.DEVTO_API_KEY[1],
     body |-> [title |-> title, published |-> TRUE,
               body_markdown |-> markdown, tags |-> tg,
               canonical_url |-> None]]

\* an entry of the log: value is the status of a response, the delay of a
\* pause, and 0 otherwise
Event(ev, api, n, value) ==
    [ev |-> ev, api |-> api, brief |-> n, value |-> value]

\* a console.log line; the title and the URL a line quotes are left out
Line(what, n) == [line |-> what, n |-> n]

\* what console.error prints: a string, or an Error with its message
Printed(kind, message) == [kind |-> kind, message |-> message]

\* !KEY
Missing(v) == v = None \/ v = Some(<< >>)

----------------------------------------------------------------------------
(* The script *)

\* briefs.length
NumBriefs == 3

\* await sleep(2500)
PauseMs == 2500

pureVars == << arg, result, applied >>

Init ==
    /\ env \in [DEVTO_API_KEY : KeyValues, GEMINI_API_KEY : KeyValues]
    /\ now \in Dates
    /\ stamp = << >>
    /\ pc = "start"
    /\ i = 0
    /\ res = None
    /\ data = None
    /\ article = None
    /\ outstanding = {}
    /\ published = {}
    /\ log = << >>
    /\ stdout = << >>
    /\ stderr = << >>
    /\ exitCode = None
    /\ arg = None
    /\ result = None
    /\ applied = 0

\* process.exit(code); also the exit with 0 once main() has returned and
\* nothing is pending
Exit(code) ==
    /\ exitCode' = Some(code)
    /\ pc' = "exited"

\* Abort without process.exit(1): main().catch((e) => console.error(e)), the
\* process then ends with status 0
Abort_ExitZero(e) ==
    /\ stderr' = Append(stderr, e)
    /\ data' = None
    /\ article' = None
    /\ exitCode' = Some(0)
    /\ pc' = "exited"

\* main().catch((e) => { console.error(e); process.exit(1); }): the error
\* has unwound main(), whose locals are gone
Abort(e) ==
    /\ stderr' = Append(stderr, e)
    /\ data' = None
    /\ article' = None
    /\ Exit(1)

\* the loop body up to the fetch of generateArticle, for index n: the
\* console lines so far are so, the log so far is lg
CallGenerate(n, so, lg) ==
    /\ i' = n
    /\ stdout' = Append(so, Line("Generating", n + 1))
    /\ outstanding' = outstanding \cup { GenRequest(n + 1) }
    /\ log' = Append(lg, Event("request", "gemini", n + 1, 0))
    /\ pc' = "gen_fetch"
    /\ res' = None
    /\ data' = None
    /\ article' = None

\* lines 8-11: DEVTO_API_KEY is missing
StartMissingDevto ==
    /\ pc = "start"
    /\ Missing(env.DEVTO_API_KEY)
    /\ stderr' = Append(stderr, Printed("string", MissingDevto))
    /\ Exit(1)
    /\ UNCHANGED << env, now, stamp, i, res, data, article, outstanding,
                    published, log, stdout, pureVars >>

\* StartMissingGemini without process.exit(1): the message is printed and
\* the script goes on into main()
StartMissingGemini_WarnOnly ==
    /\ pc = "start"
    /\ ~Missing(env.DEVTO_API_KEY)
    /\ Missing(env.GEMINI_API_KEY)
    /\ stderr' = Append(stderr, Printed("string", MissingGemini))
    /\ stamp' = StampOf(now)
    /\ i' = 0
    /\ stdout' = << Line("Starting", 0), Line("Generating", 1) >>
    /\ outstanding' =
           { [api |-> "gemini", method |-> "POST", brief |-> 1, key |-> << >>,
              body |-> [role |-> briefs[1].role, focus |-> briefs[1].focus,
                        length |-> DefaultLength]] }
    /\ log' = Append(log, Event("request", "gemini", 1, 0))
    /\ pc' = "gen_fetch"
    /\ UNCHANGED << env, now, res, data, article, published, exitCode,
                    pureVars >>

\* lines 12-15: GEMINI_API_KEY is missing
StartMissingGemini ==
    /\ pc = "start"
    /\ ~Missing(env.DEVTO_API_KEY)
    /\ Missing(env.GEMINI_API_KEY)
    /\ stderr' = Append(stderr, Printed("string", MissingGemini))
    /\ Exit(1)
    /\ UNCHANGED << env, now, stamp, i, res, data, article, outstanding,
                    published, log, stdout, pureVars >>

\* StartMain with Promise.all(briefs.map(generateArticle)): the three
\* generation requests go out at once
StartMain_Parallel ==
    /\ pc = "start"
    /\ ~Missing(env.DEVTO_API_KEY)
    /\ ~Missing(env.GEMINI_API_KEY)
    /\ stamp' = StampOf(now)
    /\ i' = 0
    /\ stdout' = << Line("Starting", 0), Line("Generating", 1) >>
    /\ outstanding' = { GenRequest(n) : n \in 1..NumBriefs }
    /\ log' = [n \in 1..NumBriefs |-> Event("request", "gemini", n, 0)]
    /\ pc' = "gen_fetch"
    /\ UNCHANGED << env, now, res, data, article, published, stderr,
                    exitCode, pureVars >>

\* both keys are there: the stamp is computed, main() starts and runs up to
\* the first fetch
StartMain ==
    /\ pc = "start"
    /\ ~Missing(env.DEVTO_API_KEY)
    /\ ~Missing(env.GEMINI_API_KEY)
    /\ stamp' = StampOf(now)
    /\ CallGenerate(0, Append(stdout, Line("Starting", 0)), log)
    /\ UNCHANGED << env, now, published, stderr, exitCode, pureVars >>

\* the fetch of generateArticle rejects (no response at all)
GenFetchRejects ==
    /\ pc = "gen_fetch"
    /\ \E r \in outstanding :
        /\ r.api = "gemini"
        /\ outstanding' = outstanding \ { r }
        /\ log' = Append(log, Event("rejected", "gemini", r.brief, 0))
    /\ Abort(Printed("TypeError", << >>))
    /\ UNCHANGED << env, now, stamp, i, res, published,
                    stdout, pureVars >>

\* the fetch of generateArticle resolves with a Response
GenFetchResolves ==
    /\ pc = "gen_fetch"
    /\ \E r \in outstanding, s \in GenStatuses :
        /\ r.api = "gemini"
        /\ outstanding' = outstanding \ { r }
        /\ res' = Some([api |-> "gemini", brief |-> r.brief, status |-> s,
                        ok |-> Ok(s), text |-> None])
        /\ log' = Append(log, Event("response", "gemini", r.brief, s))
    /\ pc' = "gen_body"
    /\ UNCHANGED << env, now, stamp, i, data, article, published, stdout,
                    stderr, exitCode, pureVars >>

\* GenErrorBody with a retry: the failure is printed and the request is sent
\* once more
GenErrorBody_Retry ==
    /\ pc = "gen_body"
    /\ ~res[1].ok
    /\ Cardinality({ p \in DOMAIN log : log[p].ev = "request" }) < 2 * NumBriefs
    /\ stderr' = Append(stderr, Printed("Error",
                     GeminiErrorMessage(res[1].status, << >>)))
    /\ outstanding' = outstanding \cup { GenRequest(i + 1) }
    /\ log' = Append(log, Event("request", "gemini", i + 1, 0))
    /\ res' = None
    /\ pc' = "gen_fetch"
    /\ UNCHANGED << env, now, stamp, i, data, article, published, stdout,
                    exitCode, pureVars >>

\* lines 72-75: !res.ok; res.text() gives the body, or "" when it rejects
GenErrorBody ==
    /\ pc = "gen_body"
    /\ ~res[1].ok
    /\ \E t \in { Some(b) : b \in ErrorBodies } \cup { None } :
        LET text == IF t = None THEN << >> ELSE t[1]
        IN  /\ res' = Some([res[1] EXCEPT !.text = Some(text)])
            /\ Abort(Printed("Error", GeminiErrorMessage(res[1].status, text)))
    /\ UNCHANGED << env, now, stamp, i, outstanding,
                    published, log, stdout, pureVars >>

\* line 77: res.json() rejects, the body is no JSON
GenJsonRejects ==
    /\ pc = "gen_body"
    /\ res[1].ok
    /\ log' = Append(log, Event("malformed", "gemini", i + 1, 0))
    /\ Abort(Printed("SyntaxError", << >>))
    /\ UNCHANGED << env, now, stamp, i, res, outstanding, published, stdout,
                    pureVars >>

\* lines 77-91 and 153-166: the body is parsed, generateArticle returns the
\* article, main() fixes title and body and runs up to the fetch of
\* publishToDevTo
GenJsonResolves ==
    /\ pc = "gen_body"
    /\ res[1].ok
    /\ \E d \in GenData(stamp) :
        LET a          == ArticleOf(d, briefs[i + 1].role, stamp)
            finalTitle == EnsureStamp(a.title, stamp)
            body       == EnsureFooter(a.markdown, stamp)
        IN  /\ data' = Some(d)
            /\ article' = Some(a)
            /\ stdout' = Append(stdout, Line("Publishing", i + 1))
            /\ outstanding' =
                   outstanding \cup { PubRequest(i + 1, finalTitle, body, a.tags) }
            /\ log' = log \o << Event("returned", "gemini", i + 1, 0),
                                Event("request", "devto", i + 1, 0) >>
    /\ res' = None
    /\ pc' = "pub_fetch"
    /\ UNCHANGED << env, now, stamp, i, published, stderr, exitCode, pureVars >>

\* the fetch of publishToDevTo rejects
PubFetchRejects ==
    /\ pc = "pub_fetch"
    /\ \E r \in outstanding :
        /\ r.api = "devto"
        /\ outstanding' = outstanding \ { r }
        /\ log' = Append(log, Event("rejected", "devto", r.brief, 0))
    /\ Abort(Printed("TypeError", << >>))
    /\ UNCHANGED << env, now, stamp, i, res, published,
                    stdout, pureVars >>

\* the fetch of publishToDevTo resolves with a Response; with a success
\* status dev.to has created the article
PubFetchResolves ==
    /\ pc = "pub_fetch"
    /\ \E r \in outstanding, s \in PubStatuses :
        /\ r.api = "devto"
        /\ outstanding' = outstanding \ { r }
        /\ res' = Some([api |-> "devto", brief |-> r.brief, status |-> s,
                        ok |-> Ok(s), text |-> None])
        /\ log' = Append(log, Event("response", "devto", r.brief, s))
        /\ published' = IF Ok(s) THEN published \cup { r.brief } ELSE published
    /\ pc' = "pub_body"
    /\ UNCHANGED << env, now, stamp, i, data, article, stdout, stderr,
                    exitCode, pureVars >>

\* PubErrorBody with the failure caught inside the loop: it is printed and
\* the loop goes on to the pause and the next brief
PubErrorBody_Continue ==
    /\ pc = "pub_body"
    /\ ~res[1].ok
    /\ stderr' = Append(stderr, Printed("Error",
                     DevtoErrorMessage(res[1].status, << >>)))
    /\ log' = Append(log, Event("pause", "timer", i + 1, PauseMs))
    /\ res' = None
    /\ pc' = "sleep"
    /\ UNCHANGED << env, now, stamp, i, data, article, outstanding,
                    published, stdout, exitCode, pureVars >>

\* lines 119-122: !res.ok
PubErrorBody ==
    /\ pc = "pub_body"
    /\ ~res[1].ok
    /\ \E t \in { Some(b) : b \in ErrorBodies } \cup { None } :
        LET text == IF t = None THEN << >> ELSE t[1]
        IN  /\ res' = Some([res[1] EXCEPT !.text = Some(text)])
            /\ Abort(Printed("Error", DevtoErrorMessage(res[1].status, text)))
    /\ UNCHANGED << env, now, stamp, i, outstanding,
                    published, log, stdout, pureVars >>

\* line 124: res.json() rejects
PubJsonRejects ==
    /\ pc = "pub_body"
    /\ res[1].ok
    /\ log' = Append(log, Event("malformed", "devto", i + 1, 0))
    /\ Abort(Printed("SyntaxError", << >>))
    /\ UNCHANGED << env, now, stamp, i, res, outstanding, published, stdout,
                    pureVars >>

\* lines 124-125 and 168-170: publishToDevTo returns the post, main() logs
\* it and starts the pause
PubJsonResolves ==
    /\ pc = "pub_body"
    /\ res[1].ok
    /\ stdout' = Append(stdout, Line("Published", i + 1))
    /\ log' = log \o << Event("returned", "devto", i + 1, 0),
                        Event("pause", "timer", i + 1, PauseMs) >>
    /\ res' = None
    /\ pc' = "sleep"
    /\ UNCHANGED << env, now, stamp, i, data, article, outstanding,
                    published, stderr, exitCode, pureVars >>

\* the pause is over and there is a next brief: i++ and the next iteration
\* runs up to its fetch
SleepNext ==
    /\ pc = "sleep"
    /\ i + 1 < NumBriefs
    /\ CallGenerate(i + 1, stdout,
                    Append(log, Event("resume", "timer", i + 1, 0)))
    /\ UNCHANGED << env, now, stamp, published, stderr, exitCode, pureVars >>

\* the pause is over and the loop ends: "All done.", main() returns, and
\* with nothing pending the process exits with status 0
SleepDone ==
    /\ pc = "sleep"
    /\ ~(i + 1 < NumBriefs)
    /\ i' = i + 1
    /\ stdout' = Append(stdout, Line("All done", 0))
    /\ log' = Append(log, Event("resume", "timer", i + 1, 0))
    /\ res' = None
    /\ data' = None
    /\ article' = None
    /\ Exit(0)
    /\ UNCHANGED << env, now, stamp, outstanding, published, stderr, pureVars >>

Next ==
    \/ StartMissingDevto
    \/ StartMissingGemini
    \/ StartMain
    \/ GenFetchRejects
    \/ GenFetchResolves
    \/ GenErrorBody
    \/ GenJsonRejects
    \/ GenJsonResolves
    \/ PubFetchRejects
    \/ PubFetchResolves
    \/ PubErrorBody
    \/ PubJsonRejects
    \/ PubJsonResolves
    \/ SleepNext
    \/ SleepDone

Spec == Init /\ [][Next]_vars

----------------------------------------------------------------------------
(* The stamp-append step of main() applied on its own, to any title *)

\* how many times the step is applied in a row
MaxApply == 2

\* texts put before and after the stamp
Affixes == UNION { [1..n -> { "a", " ", "(" }] : n \in 0..MaxAffix }

\* titles without the stamp, with a truncated stamp, with the stamp at the
\* start, in the middle or at the end, and with the stamp twice
TitleInputs(st) ==
    { pre \o mid \o post :
        pre \in Affixes, post \in Affixes,
        mid \in { << >>, st, SubSeq(st, 1, Len(st) - 1), st \o st } }

InitTitle ==
    /\ env = [DEVTO_API_KEY |-> Some(<< "k" >>), GEMINI_API_KEY |-> Some(<< "k" >>)]
    /\ now \in Dates
    /\ stamp = StampOf(now)
    /\ pc = "ensure"
    /\ i = 0
    /\ res = None
    /\ data = None
    /\ article = None
    /\ outstanding = {}
    /\ published = {}
    /\ log = << >>
    /\ stdout = << >>
    /\ stderr = << >>
    /\ exitCode = None
    /\ arg \in { Some(t) : t \in TitleInputs(stamp) }
    /\ result = None
    /\ applied = 0

\* line 156 applied to arg, then to its own result
ApplyEnsureStamp ==
    /\ pc = "ensure"
    /\ applied < MaxApply
    /\ result' = Some(EnsureStamp(IF applied = 0 THEN arg[1] ELSE result[1], stamp))
    /\ applied' = applied + 1
    /\ UNCHANGED << env, now, stamp, pc, i, res, data, article, outstanding,
                    published, log, stdout, stderr, exitCode, arg >>

NextTitle == ApplyEnsureStamp

SpecTitle == InitTitle /\ [][NextTitle]_vars

----------------------------------------------------------------------------
(* Properties *)

Success(status) == status >= 200 /\ status <= 299

IsRequest(e) == e.ev = "request"

IsFailedResponse(e, api) ==
    e.ev = "response" /\ e.api = api /\ ~Success(e.value)

Happened(ev, api, n) == \E p \in DOMAIN log : log[p] = Event(ev, api, n, 0)

\* "Gemini error 500: quota exceeded"
Gemini500Quota ==
    << "G", "e", "m", "i", "n", "i", " ", "e", "r", "r", "o", "r", " ", "5", "0",
       "0", ":", " ", "q", "u", "o", "t", "a", " ", "e", "x", "c", "e", "e", "d",
       "e", "d" >>

\* "dev.to publish error 422: invalid"
Devto422Invalid ==
    << "d", "e", "v", ".", "t", "o", " ", "p", "u", "b", "l", "i", "s", "h", " ",
       "e", "r", "r", "o", "r", " ", "4", "2", "2", ":", " ", "i", "n", "v", "a",
       "l", "i", "d" >>

\* C1: once the generation request for brief k has been answered with a
\* non-success status, no request of any kind is issued any more (no retry, no
\* later generation), no publish request exists for brief k or a later one,
\* brief k was requested exactly once, and the run can only end: it exits
\* with status 1 having printed one Error whose message is
\* "Gemini error <status>: <body text>".
C1_GenerationFailureAborts ==
    \A p \in DOMAIN log :
        IsFailedResponse(log[p], "gemini") =>
            LET k == log[p].brief
            IN  /\ \A q \in DOMAIN log : IsRequest(log[q]) => q < p
                /\ \A q \in DOMAIN log :
                       IsRequest(log[q]) =>
                           /\ log[q].brief <= k
                           /\ log[q].api = "devto" => log[q].brief < k
                /\ Cardinality({ q \in DOMAIN log :
                       log[q] = Event("request", "gemini", k, 0) }) = 1
                /\ outstanding = {}
                /\ pc \in { "gen_body", "exited" }
                /\ pc = "exited" =>
                       /\ exitCode = Some(1)
                       /\ Len(stderr) = 1
                       /\ stderr[1].kind = "Error"
                       /\ stderr[1].message =
                              GeminiErrorPrefix \o NumToString(log[p].value)
                                  \o << ":", " " >> \o res[1].text[1]
                       /\ (log[p].value = 500 /\ res[1].text[1] = QuotaExceeded) =>
                              stderr[1].message = Gemini500Quota

\* C1 witness: the generation request of the second brief was answered 500
\* "quota exceeded" and the run has exited.
C1_Witness ==
    /\ pc = "exited"
    /\ \E p \in DOMAIN log : log[p] = Event("response", "gemini", 2, 500)
    /\ res # None
    /\ res[1].text = Some(QuotaExceeded)

\* C2: once the publish request for brief k has been answered with a
\* non-success status, no request of any kind is issued any more (so no
\* generation or publish for a later brief, and no rollback or delete), no
\* request exists for a brief after k, every brief before k is and stays
\* published, and the run can only end: it exits with status 1 having printed
\* one Error whose message is "dev.to publish error <status>: <body text>".
C2_PublishFailureAborts ==
    \A p \in DOMAIN log :
        IsFailedResponse(log[p], "devto") =>
            LET k == log[p].brief
            IN  /\ \A q \in DOMAIN log : IsRequest(log[q]) => q < p
                /\ \A q \in DOMAIN log : IsRequest(log[q]) => log[q].brief <= k
                /\ published = 1..(k - 1)
                /\ outstanding = {}
                /\ pc \in { "pub_body", "exited" }
                /\ pc = "exited" =>
                       /\ exitCode = Some(1)
                       /\ Len(stderr) = 1
                       /\ stderr[1].kind = "Error"
                       /\ stderr[1].message =
                              DevtoErrorPrefix \o NumToString(log[p].value)
                                  \o << ":", " " >> \o res[1].text[1]
                       /\ (log[p].value = 422 /\ res[1].text[1] = Invalid) =>
                              stderr[1].message = Devto422Invalid

\* C2 witness: the publish request of the second of three briefs was answered
\* 422, the first brief is published, the run has exited.
C2_Witness ==
    /\ pc = "exited"
    /\ \E p \in DOMAIN log : log[p] = Event("response", "devto", 2, 422)
    /\ published = { 1 }
    /\ res # None
    /\ res[1].text = Some(Invalid)

KeyAbsent(v) == v = None \/ v = << << >> >>

\* C3: once the script has started with a credential absent (unset or empty),
\* it has exited with status 1 without issuing any request, having printed
\* exactly one message, which names the first missing credential in the
\* order DEVTO_API_KEY, GEMINI_API_KEY.
C3_MissingCredentialExits ==
    (pc # "start" /\ pc # "ensure"
        /\ (KeyAbsent(env.DEVTO_API_KEY) \/ KeyAbsent(env.GEMINI_API_KEY))) =>
        /\ pc = "exited"
        /\ exitCode = Some(1)
        /\ log = << >>
        /\ outstanding = {}
        /\ published = {}
        /\ Len(stderr) = 1
        /\ stderr[1].kind = "string"
        /\ stderr[1].message =
               IF KeyAbsent(env.DEVTO_API_KEY) THEN MissingDevto
               ELSE MissingGemini

\* C3 witness: both credentials are absent and the script has exited.
C3_Witness ==
    /\ pc = "exited"
    /\ env.DEVTO_API_KEY = None
    /\ env.GEMINI_API_KEY = None

AllPublished ==
    \A n \in 1..NumBriefs :
        Happened("returned", "gemini", n) /\ Happened("returned", "devto", n)

FailureSeen ==
    \/ KeyAbsent(env.DEVTO_API_KEY)
    \/ KeyAbsent(env.GEMINI_API_KEY)
    \/ \E p \in DOMAIN log :
        \/ IsFailedResponse(log[p], "gemini")
        \/ IsFailedResponse(log[p], "devto")
        \/ log[p].ev \in { "rejected", "malformed" }

C4_ExitState ==
    /\ (pc = "exited") <=> (exitCode # None)
    /\ pc = "exited" =>
        /\ exitCode \in { Some(0), Some(1) }
        /\ (exitCode = Some(0)) <=> AllPublished
        /\ (exitCode = Some(1)) <=> FailureSeen
        /\ AllPublished => ~FailureSeen

\* the number of steps the run can still take, at most
StepsLeft ==
    CASE pc = "exited"    -> 0
      [] pc = "start"     -> 5 * NumBriefs + 1
      [] pc = "gen_fetch" -> 5 * (NumBriefs - i)
      [] pc = "gen_body"  -> 5 * (NumBriefs - i) - 1
      [] pc = "pub_fetch" -> 5 * (NumBriefs - i) - 2
      [] pc = "pub_body"  -> 5 * (NumBriefs - i) - 3
      [] pc = "sleep"     -> 5 * (NumBriefs - i) - 4

\* C4: the process has an exit status exactly when it has ended; it ends with
\* status 0 exactly when generateArticle and publishToDevTo have returned for
\* all three briefs, and with status 1 exactly when a credential was missing
\* or a call failed (non-success status, no response, unreadable body); and
\* every run ends once its requests are answered and its timers fire: until
\* the process has exited a step is always possible, and every step brings
\* the exit nearer.
C4_ExitCodes ==
    /\ [](C4_ExitState)
    /\ [](pc = "exited" \/ ENABLED Next)
    /\ [][StepsLeft' < StepsLeft /\ StepsLeft' >= 0]_vars

\* C4 witness: a run that published all three briefs and exited with 0.
C4_Witness ==
    /\ pc = "exited"
    /\ exitCode = Some(0)
    /\ published = 1..NumBriefs
    /\ AllPublished

\* The readings of a line L as a markdown heading: white space L[1..a], "#",
\* white space L[a+2..b] (at least one character), a heading text L[b+1..e]
\* (at least one character, none a line terminator), white space up to the
\* end.
HeadingReadings(L) ==
    { r \in (0..Len(L)) \X (0..Len(L)) \X (0..Len(L)) :
        /\ r[1] + 2 <= r[2]
        /\ r[2] + 1 <= r[3]
        /\ \A k \in 1..r[1] : L[k] \in WhiteSpace
        /\ L[r[1] + 1] = "#"
        /\ \A k \in (r[1] + 2)..r[2] : L[k] \in WhiteSpace
        /\ \A k \in (r[2] + 1)..r[3] : L[k] \notin LineTerminator
        /\ \A k \in (r[3] + 1)..Len(L) : L[k] \in WhiteSpace }

IsHeading(L) == HeadingReadings(L) # {}

\* the heading text of L: of its readings, the one that gives the most to the
\* white space after "#" and then the least to the text
HeadingText(L) ==
    LET best == CHOOSE r \in HeadingReadings(L) :
                    \A o \in HeadingReadings(L) :
                        o[2] < r[2] \/ (o[2] = r[2] /\ o[3] >= r[3])
    IN  SubSeq(L, best[2] + 1, best[3])

\* what follows the first "#" of L
AfterHash(L) ==
    LET h == CHOOSE k \in 1..Len(L) : L[k] = "#" /\ \A j \in 1..(k - 1) : L[j] # "#"
    IN  SubSeq(L, h + 1, Len(L))

\* C5: the title generateArticle returns is decided by the first line of the
\* trimmed text: when the line reads as a heading (white space, "#", white
\* space, text, white space) the title is the heading text followed by
\* " (<stamp>)", the heading text being what follows "#" without the white
\* space around it whenever that is not empty; otherwise the title is
\* "AI & Tech U+2022 <role> U+2022 <stamp>".
C5_TitleFromFirstLine ==
    article # None =>
        LET L == FirstLine(article[1].markdown)
        IN  IF IsHeading(L)
            THEN /\ article[1].title =
                        HeadingText(L) \o << " ", "(" >> \o stamp \o << ")" >>
                 /\ Trim(AfterHash(L)) # << >> =>
                        article[1].title =
                            Trim(AfterHash(L)) \o << " ", "(" >> \o stamp \o << ")" >>
            ELSE article[1].title =
                     FallbackPrefix \o briefs[i + 1].role \o FallbackSep \o stamp

\* a markdown heading of any level: white space, one or more "#", white
\* space, then text; its text is what follows the "#"s without the white
\* space around it
HashRunEnd(L) ==
    LET a == WhiteRunEnd(L, 0)
    IN  CHOOSE e \in a..Len(L) :
            /\ \A k \in (a + 1)..e : L[k] = "#"
            /\ e = Len(L) \/ L[e + 1] # "#"

IsMarkdownHeading(L) ==
    /\ HashRunEnd(L) > WhiteRunEnd(L, 0)
    /\ HashRunEnd(L) < Len(L)
    /\ L[HashRunEnd(L) + 1] \in WhiteSpace
    /\ Trim(SubSeq(L, HashRunEnd(L) + 1, Len(L))) # << >>

MarkdownHeadingText(L) == Trim(SubSeq(L, HashRunEnd(L) + 1, Len(L)))

\* C5 as stated: whenever the first line is a markdown heading ("#"s followed
\* by text), the title is the heading text followed by " (<stamp>)", and
\* otherwise it is the fallback.
C5_AnyHeadingGivesTitle ==
    article # None =>
        LET L == FirstLine(article[1].markdown)
        IN  IF IsMarkdownHeading(L)
            THEN article[1].title =
                     MarkdownHeadingText(L) \o << " ", "(" >> \o stamp \o << ")" >>
            ELSE article[1].title =
                     FallbackPrefix \o briefs[i + 1].role \o FallbackSep \o stamp

\* C5 witness: a text of more than one line whose first line is "# a " was
\* generated; its title is "a (<stamp>)".
C5_Witness ==
    /\ article # None
    /\ FirstLine(article[1].markdown) = << "#", " ", "a", " " >>
    /\ Len(article[1].markdown) > 4
    /\ article[1].title = << "a", " ", "(" >> \o stamp \o << ")" >>

PublishRequests == { r \in outstanding : r.api = "devto" }

\* C6: the body of every publish request ends with the footer; it is the
\* generated markdown itself when that already ends with the footer (no second
\* footer) and the markdown followed by the footer otherwise; the step applied
\* to that body gives it back unchanged.
C6_FooterEnsured ==
    \A r \in PublishRequests :
        LET md     == article[1].markdown
            footer == FooterHead \o stamp \o << "*" >>
            body   == r.body.body_markdown
        IN  /\ EndsWith(body, footer)
            /\ EndsWith(md, footer) => body = md
            /\ ~EndsWith(md, footer) => body = md \o footer
            /\ EnsureFooter(body, stamp) = body

\* C6 witness: a publish request is out for a generated markdown that already
\* ends with the footer and is more than the footer.
C6_Witness ==
    \E r \in PublishRequests :
        /\ EndsWith(article[1].markdown, FooterHead \o stamp \o << "*" >>)
        /\ Len(article[1].markdown) > Len(FooterHead \o stamp \o << "*" >>)
        /\ r.body.body_markdown = article[1].markdown

\* C7: for every title, the stamp-append step gives the title itself when the
\* stamp occurs anywhere in it and the title followed by " (<stamp>)"
\* otherwise; its result contains the stamp, and applying the step to its
\* result changes nothing.
C7_StampEnsured ==
    applied >= 1 =>
        /\ Includes(arg[1], stamp) => result[1] = arg[1]
        /\ ~Includes(arg[1], stamp) =>
               result[1] = arg[1] \o << " ", "(" >> \o stamp \o << ")" >>
        /\ Includes(result[1], stamp)

\* C7 witness: the step was applied twice to a title that has the stamp in
\* the middle and does not end with " (<stamp>)".
C7_Witness ==
    /\ applied = 2
    /\ Includes(arg[1], stamp)
    /\ ~EndsWith(arg[1], stamp \o << ")" >>)
    /\ ~EndsWith(arg[1], stamp)

\* a success body without the expected fields: no candidates, no content, no
\* parts, or parts none of which has a text
Lacks(d) ==
    IF d.candidates = None THEN TRUE
    ELSE IF d.candidates[1] = << >> THEN TRUE
    ELSE IF d.candidates[1][1].content = None THEN TRUE
    ELSE IF d.candidates[1][1].content[1].parts = None THEN TRUE
    ELSE LET ps == d.candidates[1][1].content[1].parts[1]
         IN  \A k \in 1..Len(ps) : ps[k].text = None

\* C8: when the parsed generation response lacks the expected fields,
\* generateArticle has returned an article with empty markdown and the
\* fallback title, and the run has gone on to the publish request of that brief
\* (it has not exited).
C8_LenientOnMissingFields ==
    (data # None /\ Lacks(data[1])) =>
        /\ article # None
        /\ article[1].markdown = << >>
        /\ article[1].title =
               FallbackPrefix \o briefs[i + 1].role \o FallbackSep \o stamp
        /\ pc \in { "pub_fetch", "pub_body", "sleep" }
        /\ Happened("returned", "gemini", i + 1)
        /\ Happened("request", "devto", i + 1)

\* C8 witness: the response had two parts without text and the publish request
\* is out.
C8_Witness ==
    /\ data = Some(DataWithParts(<< [text |-> None], [text |-> None] >>))
    /\ pc = "pub_fetch"
    /\ PublishRequests # {}

\* the positions of the log before p where ev happened for api and brief n
Before(p, ev, api, n) ==
    { q \in 1..(p - 1) :
        log[q].ev = ev /\ log[q].api = api /\ log[q].brief = n }

\* C9: at most one request is outstanding; a request is issued only when
\* every earlier request has been answered; each brief has at most one
\* generation and one publish request; the publish request of brief n comes
\* after a success response to, and the return of, the generation of brief
\* n; the generation request of brief n+1 comes after a success response to
\* the publish of brief n, its return, and the start and the end of the pause
\* of 2500 ms that follows it, in this order.
C9_SequentialRequests ==
    /\ Cardinality(outstanding) <= 1
    /\ \A p \in DOMAIN log :
        IsRequest(log[p]) =>
            LET n == log[p].brief
            IN  /\ Cardinality({ q \in 1..(p - 1) : IsRequest(log[q]) })
                       = Cardinality({ q \in 1..(p - 1) :
                             log[q].ev \in { "response", "rejected" } })
                /\ Before(p, "request", log[p].api, n) = {}
                /\ n \in 1..NumBriefs
                /\ log[p].api = "devto" =>
                       \E a \in Before(p, "response", "gemini", n) :
                           /\ Success(log[a].value)
                           /\ \E b \in Before(p, "returned", "gemini", n) : a < b
                /\ (log[p].api = "gemini" /\ n > 1) =>
                       \E a \in Before(p, "response", "devto", n - 1) :
                           /\ Success(log[a].value)
                           /\ \E b \in Before(p, "returned", "devto", n - 1) :
                               /\ a < b
                               /\ \E c \in Before(p, "pause", "timer", n - 1) :
                                   /\ b < c
                                   /\ log[c].value = PauseMs
                                   /\ \E d \in Before(p, "resume", "timer", n - 1) :
                                       c < d
                /\ (log[p].api = "gemini" /\ n = 1) => p = 1

\* C9 witness: the generation request of the third brief is outstanding.
C9_Witness ==
    /\ pc = "gen_fetch"
    /\ i = 2
    /\ Cardinality(outstanding) = 1
    /\ log[Len(log)] = Event("request", "gemini", 3, 0)

\* C10: every title generateArticle returns contains the stamp, so the title
\* of the publish request is the title generateArticle returned.
C10_GeneratedTitleHasStamp ==
    article # None =>
        /\ Includes(article[1].title, stamp)
        /\ \A r \in PublishRequests : r.body.title = article[1].title

\* C10 witness: publish requests are out for a fallback title.
C10_Witness ==
    /\ article # None
    /\ article[1].markdown = << >>
    /\ \E r \in PublishRequests :
           r.body.title = FallbackPrefix \o briefs[2].role \o FallbackSep \o stamp
====
